---- MODULE Spec2Model ----
(***************************************************************************)
(* The Counter ledger of smart-contract/contracts/Counter.sol as a state   *)
(* machine: the contract's storage (count, owner, paused), one action per  *)
(* external mutating function, and the receipt of the last two calls.      *)
(* Around it, the client of frontend/src: the transaction history of      *)
(* hooks/useTransactions.ts, the contract cache of hooks/useContract.ts    *)
(* the handlers of pages/index.tsx, and the wallet session of              *)
(* hooks/useWallet.ts with its two backends, utils/metamask.ts and         *)
(* utils/hashpack.ts. Spec and ReadSpec are the ledger, HistorySpec the    *)
(* history alone, ClientSpec the cache with the ledger, PageSpec the       *)
(* handlers with the cache and the history, WalletSpec the session,        *)
(* RetrySpec a call of retryOperation of utils/hedera.ts.                  *)
(*                                                                         *)
(* Solidity 0.8.19 semantics that the model keeps:                         *)
(*   - a revert rolls the storage back and emits nothing;                  *)
(*   - modifiers run before the function body, in the order written;       *)
(*   - uint256 arithmetic is checked: an overflowing + or an underflowing  *)
(*     - reverts with Panic(0x11).                                         *)
(* TLC's integers are 32 bits wide, so the 256-bit word is modelled with   *)
(* UintBits bits, wide enough that MAX_COUNT + MAX_COUNT still fits, as in *)
(* the contract (MAX_COUNT is far below the largest uint256).              *)
(***************************************************************************)
EXTENDS Integers, Sequences, FiniteSets, TLC

\* ------------------------------------------------------------- bounds
\* Width of the modelled unsigned word (uint256 in the contract).
UintBits == 21
\* Number of non-zero account addresses that send transactions.
NumAddresses == 2
\* Number of transactions sent to the contract after its deployment.
MaxTx == 3
\* Number of transactions between which the view functions are called.
MaxReadTx == 2
\* Number of addTransaction calls made on the transaction history.
MaxAdds == 52
\* Client: operations the user starts, refreshes started by the interval
\* or by a change of wallet, and ledger transactions of other parties.
MaxOps == 2
MaxRefreshes == 1
MaxOtherTx == 1
\* Client: refreshes in flight at the same time.
MaxInFlight == 2
\* Session: calls of useWallet.connect, and page loads and backend events
\* together.
MaxConnects == 2
MaxEvents == 3
\* retryOperation: the largest maxRetries a call is made with.
MaxRetries == 5

\* ---------------------------------------------------------- constants
MAX_COUNT == 1000000
MIN_COUNT == 0

\* type(uint256).max at the modelled width.
UINT_MAX == 2^UintBits - 1
\* address(0)
ZeroAddress == 0
\* Every address value; msg.sender is never address(0).
Addresses == 0..NumAddresses
Senders == 1..NumAddresses

\* uint256 arguments tried for incrementBy/decrementBy, and for the
\* constructor's initialCount: values around both bounds and the largest word.
Amounts == {0, 1, 2, MAX_COUNT, UINT_MAX}
InitialCounts == {0, MAX_COUNT - 1, MAX_COUNT, MAX_COUNT + 1, UINT_MAX}

Errors == {"none", "CounterPaused", "MaxCountExceeded", "MinCountExceeded",
           "OnlyOwner", "InvalidAddress", "Panic"}

VARIABLES
    count,      \* uint256 private _count
    owner,      \* address private _owner
    paused,     \* bool private _paused
    lastCall,   \* receipt of the last transaction: the call, the storage it
                \* started from, its error ("none" on success), its events
    prevCall,   \* the call before lastCall: function, sender, error and
                \* whether the contract was paused when it started
    lastTransfer, \* the arguments of the latest OwnershipTransferred event
    txCount,    \* number of transactions executed since deployment
    reads,      \* what the view calls made since the last transaction
                \* returned (the latest two)
    transactions,   \* useTransactions: the history, newest first
    now,        \* Date.now(): ticks with every record created
    wallet,     \* useContract(wallet): the session the page passes in
    currentWallet,  \* WalletManager.currentWallet
    contract,   \* useContract: the cached ContractInfo, or Null
    isLoading,  \* useContract: isLoading
    error,      \* useContract: error
    pending,    \* submissions waiting for the wallet's answer
    refreshes,  \* refresh() calls in flight, in the order they started
    timers,     \* setTimeout(refresh, 1000) not fired yet
    ticks,      \* refreshes started by the interval or a wallet change
    calls,      \* calls of the hook's mutating functions
    acks,       \* submissions acknowledged as successful
    lastRead,   \* the ledger's count when a refresh last read it
    provider,   \* window.ethereum is MetaMask
    chainId,    \* the chain MetaMask is on
    localStorage,   \* the two keys the wallet backends write
    hashPack,   \* HashPackWalletManager.connection
    metaMask,   \* MetaMaskWallet.connection
    signer,     \* MetaMaskWallet.signer: the account it signs for, or Null
    isConnecting,   \* useWallet: isConnecting
    walletError,    \* useWallet: error
    handshakes, \* useWallet.connect calls waiting for the backend
    accountUpdates, \* MetaMaskWallet.updateConnection calls waiting for
                \* the balance
    submitted,  \* the last transaction handed to MetaMask, or Null
    loggedOut,  \* useWallet.disconnect has returned and no connect has
                \* succeeded since
    retry,      \* the state of a call of retryOperation
    connects,   \* calls of useWallet.connect
    events      \* backend events and page loads so far

ledgerVars == <<count, owner, paused, lastCall, prevCall, lastTransfer, txCount>>
historyVars == <<transactions, now>>
hookVars ==
    <<wallet, currentWallet, contract, isLoading, error, pending, refreshes,
      timers, ticks, calls, acks, lastRead>>
sessionVars ==
    <<provider, chainId, localStorage, hashPack, metaMask, signer,
      isConnecting, walletError, handshakes, accountUpdates, submitted,
      loggedOut,
      connects, events>>
clientVars == <<historyVars, hookVars, sessionVars, retry>>
vars == <<ledgerVars, reads, clientVars>>

\* The contract's storage as one value.
Storage == [count |-> count, owner |-> owner, paused |-> paused]

\* ------------------------------------------------------ EVM semantics
\* An emitted event: its name and its arguments in declaration order.
Event(name, args) == [name |-> name, args |-> args]

\* `revert E()`: the storage the call started from, the error, no event.
Revert(st, err) == [st |-> st, error |-> err, events |-> <<>>]

\* Normal return: the new storage and the events emitted.
Return(st, evs) == [st |-> st, error |-> "none", events |-> evs]

\* Checked uint256 arithmetic: a + b overflows, a - b underflows.
Overflows(a, b) == a + b > UINT_MAX
Underflows(a, b) == a < b

\* ---------------------------------------------------------- modifiers
\* modifier onlyOwner: `body` runs only for the owner.
onlyOwner(st, sender, body) ==
    IF sender # st.owner THEN Revert(st, "OnlyOwner") ELSE body

\* modifier whenNotPaused: `body` runs only while not paused.
whenNotPaused(st, body) ==
    IF st.paused THEN Revert(st, "CounterPaused") ELSE body

\* ------------------------------------------------- contract functions
\* A constructor that deploys the contract paused.
constructor_StartsPaused(sender, initialCount) ==
    [st |-> [count |-> initialCount, owner |-> sender, paused |-> TRUE],
     error |-> "none",
     events |-> <<[name |-> "OwnershipTransferred", args |-> <<0, sender>>]>>]

\* constructor(uint256 initialCount): no check on initialCount.
constructor(sender, initialCount) ==
    Return([count |-> initialCount, owner |-> sender, paused |-> FALSE],
           <<Event("OwnershipTransferred", <<ZeroAddress, sender>>)>>)

\* increment with the bound test written `>` instead of `>=`.
increment_OffByOne(st, sender) ==
    whenNotPaused(st,
        IF st.count > MAX_COUNT THEN Revert(st, "MaxCountExceeded")
        ELSE IF Overflows(st.count, 1) THEN Revert(st, "Panic")
        ELSE LET c == st.count + 1
             IN  Return([st EXCEPT !.count = c],
                        <<Event("CountIncremented", <<c, sender>>)>>))

increment(st, sender) ==
    whenNotPaused(st,
        IF st.count >= MAX_COUNT THEN Revert(st, "MaxCountExceeded")
        ELSE IF Overflows(st.count, 1) THEN Revert(st, "Panic")
        ELSE LET c == st.count + 1
             IN  Return([st EXCEPT !.count = c],
                        <<Event("CountIncremented", <<c, sender>>)>>))

\* decrement that reports the count before the call in its event.
decrement_EmitsOldCount(st, sender) ==
    whenNotPaused(st,
        IF st.count <= MIN_COUNT THEN Revert(st, "MinCountExceeded")
        ELSE IF Underflows(st.count, 1) THEN Revert(st, "Panic")
        ELSE Return([st EXCEPT !.count = st.count - 1],
                    <<Event("CountDecremented", <<st.count, sender>>)>>))

decrement(st, sender) ==
    whenNotPaused(st,
        IF st.count <= MIN_COUNT THEN Revert(st, "MinCountExceeded")
        ELSE IF Underflows(st.count, 1) THEN Revert(st, "Panic")
        ELSE LET c == st.count - 1
             IN  Return([st EXCEPT !.count = c],
                        <<Event("CountDecremented", <<c, sender>>)>>))

\* incrementBy that stops at the bound instead of rejecting the call.
incrementBy_Clamped(st, sender, amount) ==
    whenNotPaused(st,
        IF Overflows(st.count, amount) THEN Revert(st, "Panic")
        ELSE LET c == IF st.count + amount > MAX_COUNT
                      THEN MAX_COUNT ELSE st.count + amount
             IN  Return([st EXCEPT !.count = c],
                        <<Event("CountIncremented", <<c, sender>>)>>))

\* incrementBy with the addition of the bound test and of the assignment
\* in an unchecked block: the sum wraps around at the word size.
incrementBy_Wrapping(st, sender, amount) ==
    whenNotPaused(st,
        LET c == (st.count + amount) % (UINT_MAX + 1)
        IN  IF c > MAX_COUNT THEN Revert(st, "MaxCountExceeded")
            ELSE Return([st EXCEPT !.count = c],
                        <<Event("CountIncremented", <<c, sender>>)>>))

\* `_count + amount > MAX_COUNT` is evaluated with checked addition.
incrementBy(st, sender, amount) ==
    whenNotPaused(st,
        IF Overflows(st.count, amount) THEN Revert(st, "Panic")
        ELSE IF st.count + amount > MAX_COUNT
             THEN Revert(st, "MaxCountExceeded")
        ELSE LET c == st.count + amount
             IN  Return([st EXCEPT !.count = c],
                        <<Event("CountIncremented", <<c, sender>>)>>))

\* decrementBy declared without the whenNotPaused modifier.
decrementBy_NotGuarded(st, sender, amount) ==
    IF st.count < amount THEN Revert(st, "MinCountExceeded")
    ELSE IF st.count - amount < MIN_COUNT
         THEN Revert(st, "MinCountExceeded")
    ELSE LET c == st.count - amount
         IN  Return([st EXCEPT !.count = c],
                    <<Event("CountDecremented", <<c, sender>>)>>)

\* `_count < amount || _count - amount < MIN_COUNT`: || short-circuits, so
\* the subtraction is evaluated only when it cannot underflow.
decrementBy(st, sender, amount) ==
    whenNotPaused(st,
        IF st.count < amount THEN Revert(st, "MinCountExceeded")
        ELSE IF st.count - amount < MIN_COUNT
             THEN Revert(st, "MinCountExceeded")
        ELSE LET c == st.count - amount
             IN  Return([st EXCEPT !.count = c],
                        <<Event("CountDecremented", <<c, sender>>)>>))

\* reset declared with whenNotPaused as well.
reset_WhenNotPaused(st, sender) ==
    onlyOwner(st, sender,
        whenNotPaused(st,
            Return([st EXCEPT !.count = 0],
                   <<Event("CountReset", <<sender>>)>>)))

reset(st, sender) ==
    onlyOwner(st, sender,
        Return([st EXCEPT !.count = 0], <<Event("CountReset", <<sender>>)>>))

\* pause declared without the onlyOwner modifier.
pause_AnyCaller(st, sender) ==
    Return([st EXCEPT !.paused = TRUE], <<Event("ContractPaused", <<sender>>)>>)

pause(st, sender) ==
    onlyOwner(st, sender,
        Return([st EXCEPT !.paused = TRUE],
               <<Event("ContractPaused", <<sender>>)>>))

\* unpause that writes the value pause writes.
unpause_SetsTrue(st, sender) ==
    onlyOwner(st, sender,
        Return([st EXCEPT !.paused = TRUE],
               <<Event("ContractUnpaused", <<sender>>)>>))

unpause(st, sender) ==
    onlyOwner(st, sender,
        Return([st EXCEPT !.paused = FALSE],
               <<Event("ContractUnpaused", <<sender>>)>>))

\* transferOwnership without the address(0) test.
transferOwnership_NoZeroCheck(st, sender, newOwner) ==
    onlyOwner(st, sender,
        LET oldOwner == st.owner
        IN  Return([st EXCEPT !.owner = newOwner],
                   <<Event("OwnershipTransferred", <<oldOwner, newOwner>>)>>))

\* transferOwnership that writes oldOwner back to _owner.
transferOwnership_KeepsOwner(st, sender, newOwner) ==
    onlyOwner(st, sender,
        IF newOwner = ZeroAddress THEN Revert(st, "InvalidAddress")
        ELSE LET oldOwner == st.owner
             IN  Return([st EXCEPT !.owner = oldOwner],
                        <<Event("OwnershipTransferred",
                                <<oldOwner, newOwner>>)>>))

transferOwnership(st, sender, newOwner) ==
    onlyOwner(st, sender,
        IF newOwner = ZeroAddress THEN Revert(st, "InvalidAddress")
        ELSE LET oldOwner == st.owner
             IN  Return([st EXCEPT !.owner = newOwner],
                        <<Event("OwnershipTransferred",
                                <<oldOwner, newOwner>>)>>))

\* ----------------------------------------------------- view functions
\* A view call returns its values and cannot write the storage.
View(st, value) == [st |-> st, error |-> "none", value |-> value]

getCount(st) == View(st, <<st.count>>)

getOwner(st) == View(st, <<st.owner>>)

isPaused(st) == View(st, <<st.paused>>)

\* getContractInfo with maxCount and minCount returned in the other order.
getContractInfo_Swapped(st) ==
    View(st, <<st.count, st.owner, st.paused, MIN_COUNT, MAX_COUNT>>)

getContractInfo(st) ==
    View(st, <<st.count, st.owner, st.paused, MAX_COUNT, MIN_COUNT>>)

\* ------------------------------------------------------- transactions
\* The receipt of a call: what was called, by whom, with which argument
\* (amount for the ...By functions, newOwner for transferOwnership, 0 for
\* the others), the storage before it, and its outcome.
Receipt(op, sender, arg, pre, res) ==
    [op |-> op, sender |-> sender, arg |-> arg, pre |-> pre,
     error |-> res.error, events |-> res.events]

Brief(call) ==
    [op |-> call.op, sender |-> call.sender, error |-> call.error,
     wasPaused |-> call.pre.paused]

NoCall ==
    [op |-> "none", sender |-> ZeroAddress, error |-> "none",
     wasPaused |-> FALSE]

\* The latest OwnershipTransferred(previousOwner, newOwner) of the event log
\* once the events `evs` are appended to a log whose latest one was `last`.
LatestTransfer(last, evs) ==
    LET idx == {i \in 1..Len(evs) : evs[i].name = "OwnershipTransferred"}
    IN  IF idx = {} THEN last
        ELSE LET i == CHOOSE j \in idx : \A k \in idx : k <= j
             IN  [previousOwner |-> evs[i].args[1],
                  newOwner |-> evs[i].args[2]]

\* One transaction: the storage becomes the call's result, the receipt is
\* recorded.
Execute(op, sender, arg, res) ==
    /\ txCount < MaxTx
    /\ count' = res.st.count
    /\ owner' = res.st.owner
    /\ paused' = res.st.paused
    /\ lastCall' = Receipt(op, sender, arg, Storage, res)
    /\ prevCall' = Brief(lastCall)
    /\ lastTransfer' = LatestTransfer(lastTransfer, res.events)
    /\ txCount' = txCount + 1
    /\ UNCHANGED <<reads, clientVars>>

\* The client before any of its code has run: an empty history.
HistoryIdle ==
    /\ transactions = <<>>
    /\ now = 1

\* null
Null == [null |-> TRUE]
\* useState<string | null>(null): no error message.
NoError == "null"
\* The contract cache of useContract before a refresh has resolved;
\* `loading` is isLoading and `inFlight` the refreshes in flight.
CacheState(loading, inFlight) ==
    /\ contract = Null
    /\ isLoading = loading
    /\ error = NoError
    /\ pending = <<>>
    /\ refreshes = inFlight
    /\ timers = 0
    /\ ticks = 0
    /\ calls = 0
    /\ acks = 0
    /\ lastRead = -1

\* useContract before its effects have run, with no session passed in.
HookState(loading, inFlight) ==
    /\ wallet = Null
    /\ currentWallet = Null
    /\ CacheState(loading, inFlight)

\* '0x128', the chainId of HEDERA_NETWORKS.testnet, and another chain.
HederaChain == 296
OtherChain == 1

\* localStorage.getItem(key) of a key that is not stored.
Absent == Null

\* The wallet backends and useWallet with nothing stored, nothing
\* connected and MetaMask on the Hedera chain.
SessionIdle ==
    /\ provider = TRUE
    /\ chainId = HederaChain
    /\ localStorage = [key \in {"hashpack_wallet_connection",
                                "metamask_connection"} |-> Absent]
    /\ hashPack = Null
    /\ metaMask = Null
    /\ signer = Null
    /\ isConnecting = FALSE
    /\ walletError = NoError
    /\ handshakes = <<>>
    /\ accountUpdates = <<>>
    /\ submitted = Null
    /\ loggedOut = FALSE
    /\ connects = 0
    /\ events = 0

\* No call of retryOperation has been made.
RetryIdle == [status |-> "idle"]

ClientIdle ==
    HistoryIdle /\ HookState(FALSE, <<>>) /\ SessionIdle /\ retry = RetryIdle

\* Deployment by any account with an initialCount of `initialCounts`.
DeployedWith(initialCounts) ==
    \E sender \in Senders, initialCount \in initialCounts :
        LET res == constructor(sender, initialCount)
        IN  /\ count = res.st.count
            /\ owner = res.st.owner
            /\ paused = res.st.paused
            /\ lastCall = Receipt("constructor", sender, initialCount,
                                  res.st, res)
            /\ prevCall = NoCall
            /\ lastTransfer = LatestTransfer(
                    [previousOwner |-> ZeroAddress, newOwner |-> ZeroAddress],
                    res.events)
            /\ txCount = 0
            /\ reads = <<>>

\* Deployment by any account with any initialCount.
Deployed == DeployedWith(InitialCounts)

Init == Deployed /\ ClientIdle

Increment ==
    \E sender \in Senders :
        Execute("increment", sender, 0, increment(Storage, sender))

Decrement ==
    \E sender \in Senders :
        Execute("decrement", sender, 0, decrement(Storage, sender))

IncrementBy ==
    \E sender \in Senders, amount \in Amounts :
        Execute("incrementBy", sender, amount,
                incrementBy(Storage, sender, amount))

DecrementBy ==
    \E sender \in Senders, amount \in Amounts :
        Execute("decrementBy", sender, amount,
                decrementBy(Storage, sender, amount))

Reset ==
    \E sender \in Senders :
        Execute("reset", sender, 0, reset(Storage, sender))

Pause ==
    \E sender \in Senders :
        Execute("pause", sender, 0, pause(Storage, sender))

Unpause ==
    \E sender \in Senders :
        Execute("unpause", sender, 0, unpause(Storage, sender))

TransferOwnership ==
    \E sender \in Senders, newOwner \in Addresses :
        Execute("transferOwnership", sender, newOwner,
                transferOwnership(Storage, sender, newOwner))

Next ==
    \/ Increment
    \/ Decrement
    \/ IncrementBy
    \/ DecrementBy
    \/ Reset
    \/ Pause
    \/ Unpause
    \/ TransferOwnership

Spec == Init /\ [][Next]_vars

\* ------------------------------------------------ ledger with readers
\* The same contract with its view functions called between transactions.
\* This specification keeps no receipts: a transaction writes the storage
\* and starts a new list of reads.
MutatingFunctions ==
    {"increment", "decrement", "incrementBy", "decrementBy", "reset",
     "pause", "unpause", "transferOwnership"}

\* The external mutating function `op` called with `arg`.
Call(op, st, sender, arg) ==
    CASE op = "increment" -> increment(st, sender)
      [] op = "decrement" -> decrement(st, sender)
      [] op = "incrementBy" -> incrementBy(st, sender, arg)
      [] op = "decrementBy" -> decrementBy(st, sender, arg)
      [] op = "reset" -> reset(st, sender)
      [] op = "pause" -> pause(st, sender)
      [] op = "unpause" -> unpause(st, sender)
      [] op = "transferOwnership" -> transferOwnership(st, sender, arg)

\* Arguments tried for `op`.
ArgsOf(op) ==
    IF op \in {"incrementBy", "decrementBy"} THEN Amounts
    ELSE IF op = "transferOwnership" THEN Addresses
    ELSE {0}

Transact ==
    \E sender \in Senders, op \in MutatingFunctions :
        \E arg \in ArgsOf(op) :
            LET res == Call(op, Storage, sender, arg)
            IN  /\ txCount < MaxReadTx
                /\ count' = res.st.count
                /\ owner' = res.st.owner
                /\ paused' = res.st.paused
                /\ txCount' = txCount + 1
                /\ reads' = <<>>
                /\ UNCHANGED <<lastCall, prevCall, lastTransfer, clientVars>>

\* The latest two of the reads once `r` is added.
Latest2(rs, r) == IF Len(rs) < 2 THEN Append(rs, r) ELSE <<rs[2], r>>

\* A view call by `caller`: the storage becomes what the call leaves, the
\* returned value is recorded.
Read(fn, caller, res) ==
    /\ count' = res.st.count
    /\ owner' = res.st.owner
    /\ paused' = res.st.paused
    /\ reads' = Latest2(reads, [fn |-> fn, caller |-> caller,
                                 error |-> res.error, value |-> res.value])
    /\ UNCHANGED <<lastCall, prevCall, lastTransfer, txCount, clientVars>>

GetCount == \E caller \in Senders : Read("getCount", caller, getCount(Storage))

GetOwner == \E caller \in Senders : Read("getOwner", caller, getOwner(Storage))

IsPaused == \E caller \in Senders : Read("isPaused", caller, isPaused(Storage))

GetContractInfo ==
    \E caller \in Senders :
        Read("getContractInfo", caller, getContractInfo(Storage))

ReadNext ==
    \/ Transact
    \/ GetCount
    \/ GetOwner
    \/ IsPaused
    \/ GetContractInfo

ReadSpec == Init /\ [][ReadNext]_vars

\* ------------------------------------------------------------- claims
\* The claims read the receipt of the last call: lastCall.pre is the storage
\* the call started from, the variables are the storage it left.
Counting == {"increment", "decrement", "incrementBy", "decrementBy"}
OwnerOnly == {"reset", "pause", "unpause", "transferOwnership"}
Unchanged(call) == Storage = call.pre

\* C1: in every reachable state, MIN_COUNT <= count <= MAX_COUNT.
\* The constructor stores any initialCount, so the state right after a
\* deployment with initialCount > MAX_COUNT already breaks it.
C1_CountWithinBounds == MIN_COUNT <= count /\ count <= MAX_COUNT

\* C2: a counting call made while paused fails with CounterPaused, leaves
\* count unchanged and emits nothing, whoever calls and whatever the amount,
\* also when the call would break a bound as well.
C2_PausedBlocksCounting ==
    (lastCall.op \in Counting /\ lastCall.pre.paused) =>
        /\ lastCall.error = "CounterPaused"
        /\ count = lastCall.pre.count
        /\ lastCall.events = <<>>

\* A paused incrementBy whose sum exceeds MAX_COUNT, and a paused decrementBy
\* of more than count, were both rejected with CounterPaused.
C2_Witness ==
    /\ lastCall.pre.paused
    /\ lastCall.error = "CounterPaused"
    /\ \/ /\ lastCall.op = "incrementBy"
          /\ lastCall.pre.count + lastCall.arg > MAX_COUNT
       \/ /\ lastCall.op = "decrementBy"
          /\ lastCall.arg > lastCall.pre.count

\* C3: reset, pause, unpause and transferOwnership succeed only for the
\* current owner; from any other caller they fail with OnlyOwner, leave
\* count, owner and paused unchanged and emit nothing.
C3_OwnerOnlyCalls ==
    lastCall.op \in OwnerOnly =>
        /\ lastCall.error = "none" => lastCall.sender = lastCall.pre.owner
        /\ lastCall.sender # lastCall.pre.owner =>
              /\ lastCall.error = "OnlyOwner"
              /\ Unchanged(lastCall)
              /\ lastCall.events = <<>>

\* A pause by an account that is not the owner was rejected.
C3_Witness ==
    /\ lastCall.op = "pause"
    /\ lastCall.sender # lastCall.pre.owner
    /\ lastCall.error = "OnlyOwner"
    /\ ~paused

\* C4: counting calls never move count out of the bounds: an unpaused call
\* whose result would be above MAX_COUNT (below MIN_COUNT) leaves count
\* unchanged and fails with MaxCountExceeded (MinCountExceeded).
\* incrementBy breaks the error part: when count + amount overflows the
\* word, the checked addition of the bound test reverts with Panic.
C4_BoundErrors ==
    ~lastCall.pre.paused =>
        LET delta == IF lastCall.op \in {"increment", "decrement"}
                     THEN 1 ELSE lastCall.arg
        IN  /\ lastCall.op \in {"increment", "incrementBy"} =>
                 /\ count > lastCall.pre.count => count <= MAX_COUNT
                 /\ lastCall.pre.count + delta > MAX_COUNT =>
                        /\ count = lastCall.pre.count
                        /\ lastCall.error = "MaxCountExceeded"
            /\ lastCall.op \in {"decrement", "decrementBy"} =>
                 /\ count >= MIN_COUNT
                 /\ lastCall.pre.count - delta < MIN_COUNT =>
                        /\ count = lastCall.pre.count
                        /\ lastCall.error = "MinCountExceeded"

\* C5: an unpaused incrementBy(amount) adds exactly amount when
\* count + amount <= MAX_COUNT and otherwise leaves count as it was; an
\* unpaused decrementBy(amount) subtracts exactly amount when
\* amount <= count - MIN_COUNT and otherwise leaves count as it was.
C5_AllOrNothing ==
    ~lastCall.pre.paused =>
        /\ lastCall.op = "incrementBy" =>
              count = IF lastCall.pre.count + lastCall.arg <= MAX_COUNT
                      THEN lastCall.pre.count + lastCall.arg
                      ELSE lastCall.pre.count
        /\ lastCall.op = "decrementBy" =>
              count = IF lastCall.arg <= lastCall.pre.count - MIN_COUNT
                      THEN lastCall.pre.count - lastCall.arg
                      ELSE lastCall.pre.count

\* An incrementBy from below MAX_COUNT to above it was rejected whole: count
\* is neither the sum nor MAX_COUNT.
C5_Witness ==
    /\ lastCall.op = "incrementBy"
    /\ ~lastCall.pre.paused
    /\ lastCall.pre.count < MAX_COUNT
    /\ lastCall.pre.count + lastCall.arg > MAX_COUNT
    /\ count = lastCall.pre.count

\* C6: increment, from any caller, succeeds exactly when not paused and
\* count < MAX_COUNT, and then adds 1; decrement succeeds exactly when not
\* paused and count > MIN_COUNT, and then subtracts 1; a failed call leaves
\* count as it was; at count = MAX_COUNT an unpaused increment fails with
\* MaxCountExceeded.
C6_StepByOne ==
    /\ lastCall.op = "increment" =>
          /\ lastCall.error = "none" <=>
                (~lastCall.pre.paused /\ lastCall.pre.count < MAX_COUNT)
          /\ count = IF lastCall.error = "none"
                     THEN lastCall.pre.count + 1 ELSE lastCall.pre.count
          /\ (~lastCall.pre.paused /\ lastCall.pre.count = MAX_COUNT) =>
                lastCall.error = "MaxCountExceeded"
    /\ lastCall.op = "decrement" =>
          /\ lastCall.error = "none" <=>
                (~lastCall.pre.paused /\ lastCall.pre.count > MIN_COUNT)
          /\ count = IF lastCall.error = "none"
                     THEN lastCall.pre.count - 1 ELSE lastCall.pre.count

\* An increment reached MAX_COUNT and the next one, by an account that is
\* not the owner, failed with MaxCountExceeded.
C6_Witness ==
    /\ prevCall.op = "increment"
    /\ prevCall.error = "none"
    /\ lastCall.op = "increment"
    /\ lastCall.sender # owner
    /\ lastCall.pre.count = MAX_COUNT
    /\ lastCall.error = "MaxCountExceeded"
    /\ count = MAX_COUNT

\* C7: transferOwnership by the owner fails with InvalidAddress and keeps
\* the owner when newOwner is address(0), and otherwise makes newOwner the
\* owner; the owner is never address(0).
C7_NoZeroOwner ==
    /\ owner # ZeroAddress
    /\ (lastCall.op = "transferOwnership"
            /\ lastCall.sender = lastCall.pre.owner) =>
          IF lastCall.arg = ZeroAddress
          THEN lastCall.error = "InvalidAddress" /\ Unchanged(lastCall)
          ELSE lastCall.error = "none" /\ owner = lastCall.arg

\* The owner's transfer to address(0) was rejected.
C7_Witness ==
    /\ lastCall.op = "transferOwnership"
    /\ lastCall.sender = lastCall.pre.owner
    /\ lastCall.arg = ZeroAddress
    /\ lastCall.error = "InvalidAddress"

\* C8: once owner A has transferred ownership to B # A (the latest
\* OwnershipTransferred event is (A, B)), B is the owner; every reset, pause,
\* unpause and transferOwnership by A fails with OnlyOwner; reset, pause and
\* unpause by B succeed, reset setting count to 0; transferOwnership by B
\* passes the owner test and succeeds for every newOwner other than
\* address(0); and the owner changes only by a transferOwnership of B.
C8_AfterTransfer ==
    [][LET A == lastTransfer.previousOwner
           B == lastTransfer.newOwner
           call == lastCall'
       IN  (A # ZeroAddress /\ A # B) =>
             /\ owner = B
             /\ (call.op \in OwnerOnly /\ call.sender = A) =>
                    call.error = "OnlyOwner"
             /\ (call.op \in {"reset", "pause", "unpause"}
                    /\ call.sender = B) => call.error = "none"
             /\ (call.op = "reset" /\ call.sender = B) => count' = 0
             /\ (call.op = "transferOwnership" /\ call.sender = B) =>
                    /\ call.error # "OnlyOwner"
                    /\ call.arg # ZeroAddress => call.error = "none"
             /\ owner' # B =>
                    /\ call.op = "transferOwnership"
                    /\ call.sender = B
                    /\ call.error = "none"
      ]_vars

\* After a transfer from A to B, A's reset failed with OnlyOwner and then
\* B's reset succeeded and set a non-zero count to 0.
C8_Witness ==
    /\ lastTransfer.previousOwner # ZeroAddress
    /\ lastTransfer.previousOwner # lastTransfer.newOwner
    /\ prevCall.op = "reset"
    /\ prevCall.sender = lastTransfer.previousOwner
    /\ prevCall.error = "OnlyOwner"
    /\ lastCall.op = "reset"
    /\ lastCall.sender = lastTransfer.newOwner
    /\ lastCall.error = "none"
    /\ lastCall.pre.count > 0
    /\ count = 0

\* C9: while paused every increment fails with CounterPaused, and paused
\* is cleared only by a successful unpause; a successful pause sets paused,
\* a successful unpause clears it, and neither changes count or owner; the
\* increment that follows a successful unpause succeeds when
\* count < MAX_COUNT.
C9_PauseUnpause ==
    /\ (lastCall.op = "increment" /\ lastCall.pre.paused) =>
          lastCall.error = "CounterPaused" /\ count = lastCall.pre.count
    /\ (lastCall.pre.paused /\ ~paused) =>
          lastCall.op = "unpause" /\ lastCall.error = "none"
    /\ lastCall.op \in {"pause", "unpause"} =>
          /\ count = lastCall.pre.count
          /\ owner = lastCall.pre.owner
          /\ lastCall.error = "none" => paused = (lastCall.op = "pause")
    /\ (prevCall.op = "unpause" /\ prevCall.error = "none"
            /\ lastCall.op = "increment"
            /\ lastCall.pre.count < MAX_COUNT) =>
          lastCall.error = "none" /\ count = lastCall.pre.count + 1

\* The contract was paused, the owner unpaused it, and the increment that
\* followed succeeded.
C9_Witness ==
    /\ prevCall.op = "unpause"
    /\ prevCall.error = "none"
    /\ prevCall.wasPaused
    /\ lastCall.op = "increment"
    /\ lastCall.error = "none"
    /\ count = lastCall.pre.count + 1

\* C10: reset by the owner succeeds from every state, paused or not and
\* whatever the count, sets count to 0 and leaves owner and paused as they
\* were; after it an unpaused increment succeeds and gives count = 1.
C10_ResetFrame ==
    /\ (lastCall.op = "reset" /\ lastCall.sender = lastCall.pre.owner) =>
          /\ lastCall.error = "none"
          /\ count = 0
          /\ owner = lastCall.pre.owner
          /\ paused = lastCall.pre.paused
    /\ (prevCall.op = "reset" /\ prevCall.error = "none"
            /\ lastCall.op = "increment" /\ ~lastCall.pre.paused) =>
          lastCall.error = "none" /\ count = 1

\* The owner reset a paused contract whose count was above 0.
C10_Witness ==
    /\ lastCall.op = "reset"
    /\ lastCall.error = "none"
    /\ lastCall.pre.paused
    /\ lastCall.pre.count > 0
    /\ count = 0
    /\ paused

\* ------------------------------------------------ transaction history
\* frontend/src/hooks/useTransactions.ts. A record id is the string
\* tx_<Date.now()>_<random>, unique per call: it is modelled by the reading
\* of a clock that ticks with every record, starting at 1. A value that is
\* `undefined` in the program is the value 0, which is no record's id.
Undefined == 0
MAX_TRANSACTIONS_HISTORY == 50

\* updated.slice(0, n)
Slice(seq, n) == SubSeq(seq, 1, IF Len(seq) < n THEN Len(seq) ELSE n)

\* { ...a, ...b }: the fields of both, those of b winning.
Spread(a, b) == b @@ a

\* addTransaction that keeps the first MAX_TRANSACTIONS_HISTORY records
\* ever added and drops the new one once the history is full.
addTransaction_KeepsOldest(prev, transaction, time) ==
    Slice(prev \o <<Spread(transaction, [id |-> time, timestamp |-> time])>>,
          MAX_TRANSACTIONS_HISTORY)

\* The history after addTransaction(transaction) at clock reading `time`.
\* The function returns nothing to its caller.
addTransaction(prev, transaction, time) ==
    LET newTransaction ==
            Spread(transaction, [id |-> time, timestamp |-> time])
        updated == <<newTransaction>> \o prev
    IN  Slice(updated, MAX_TRANSACTIONS_HISTORY)

\* The history after updateTransaction(id, updates).
updateTransaction(prev, id, updates) ==
    [i \in 1..Len(prev) |->
        IF prev[i].id = id THEN Spread(prev[i], updates) ELSE prev[i]]

clearTransactions(prev) == <<>>

\* What the page passes to addTransaction, and to updateTransaction.
NewTransactions == {[type |-> "increment", status |-> "pending"]}
Updates ==
    {[status |-> "success", hash |-> Undefined],
     [status |-> "error", error |-> "Transaction failed"]}
\* Ids passed to updateTransaction: no id, the first record's, and the id
\* of the record that is added when the first one has just been evicted.
UpdateIds == {Undefined, 1, MAX_TRANSACTIONS_HISTORY + 1}

AddTransaction ==
    \E transaction \in NewTransactions :
        /\ now <= MaxAdds
        /\ transactions' = addTransaction(transactions, transaction, now)
        /\ now' = now + 1
        /\ UNCHANGED <<ledgerVars, reads, hookVars, sessionVars, retry>>

UpdateTransaction ==
    \E id \in UpdateIds, updates \in Updates :
        /\ transactions' = updateTransaction(transactions, id, updates)
        /\ UNCHANGED <<ledgerVars, reads, now, hookVars, sessionVars, retry>>

ClearTransactions ==
    /\ transactions' = clearTransactions(transactions)
    /\ UNCHANGED <<ledgerVars, reads, now, hookVars, sessionVars, retry>>

HistoryNext ==
    \/ AddTransaction
    \/ UpdateTransaction
    \/ ClearTransactions

HistorySpec == Init /\ [][HistoryNext]_vars

\* ------------------------------------------------------------ client
\* frontend/src/hooks/useContract.ts with the handlers of
\* frontend/src/pages/index.tsx and the WalletManager of
\* frontend/src/utils/wallet.ts.
\*
\* An address or an account id as the text the program compares: its
\* prefix, the number of characters after the prefix, and the number
\* written there.
Text(prefix, digits, value) ==
    [prefix |-> prefix, digits |-> digits, value |-> value]

RECURSIVE DecimalDigits(_)
DecimalDigits(n) == IF n < 10 THEN 1 ELSE 1 + DecimalDigits(n \div 10)

\* `0x${owner}`: the 40 hexadecimal digits of the ledger address.
EvmAddress(a) == Text("0x", 40, a)
\* '0.0.<num>'
AccountId(num) == Text("0.0.", DecimalDigits(num), num)
\* '0.0.6255971'
DefaultOwner == AccountId(6255971)
\* `0x${wallet.accountId.replace(/\./g, '')}`: '0.0.<num>' loses its two
\* dots, so '00<num>' follows the 0x.
userAddress(accountId) == Text("0x", 2 + accountId.digits, accountId.value)

\* The sessions the page passes to the hook: none, or an account that is
\* connected or not.
Wallets ==
    {Null} \cup
    {[accountId |-> AccountId(a), isConnected |-> b] :
        a \in Senders, b \in BOOLEAN}

\* wallet?.isConnected
IsConnected(w) == w # Null /\ w.isConnected

ERROR_MESSAGES ==
    [WALLET_NOT_CONNECTED |-> "Please connect your wallet first",
     CONTRACT_NOT_DEPLOYED |-> "Contract not deployed or invalid contract ID",
     TRANSACTION_FAILED |-> "Transaction failed. Please try again.",
     NETWORK_ERROR |-> "Network error. Please check your connection.",
     INSUFFICIENT_BALANCE |-> "Insufficient HBAR balance for transaction",
     CONTRACT_PAUSED |-> "Contract is currently paused",
     MAX_COUNT_EXCEEDED |-> "Cannot increment beyond maximum count",
     MIN_COUNT_EXCEEDED |-> "Cannot decrement below minimum count",
     INVALID_AMOUNT |-> "Please enter a valid amount",
     WALLET_REJECTED |-> "Transaction was rejected by wallet",
     UNKNOWN_ERROR |-> "An unknown error occurred"]
ConnectWalletMessage == "Please connect your wallet to perform transactions"
AmountRangeMessage == "Amount must be between 1 and 1000"
OwnerOnlyMessage == "Only the contract owner can reset the counter"
UserRejected == "User rejected the request"

MIN_INCREMENT_AMOUNT == 1
MAX_INCREMENT_AMOUNT == 1000
MIN_DECREMENT_AMOUNT == 1
MAX_DECREMENT_AMOUNT == 1000

\* Amounts the user enters for incrementBy/decrementBy.
ClientAmounts == {0, 5, 1001}

\* What refresh() stores when every query failed.
FallbackData ==
    [count |-> 0, owner |-> DefaultOwner, isPaused |-> FALSE,
     maxCount |-> 1000000, minCount |-> 0]

\* contractData of refresh(): the ledger storage `st` when the queries
\* succeeded, the fallback data when they failed. (The queries succeed or
\* fail together here; in the program the owner and the paused query can
\* also fail alone, which gives the default owner, respectively false.)
contractData(st, ok) ==
    IF ok
    THEN [count |-> st.count, owner |-> EvmAddress(st.owner),
          isPaused |-> st.paused, maxCount |-> 1000000, minCount |-> 0]
    ELSE FallbackData

\* What a hook function does before anything is awaited: return silently,
\* set an error and return, or go on.
Decision(outcome, message) == [outcome |-> outcome, message |-> message]

\* increment of the hook without the test of the cached count.
useContract_increment_Unchecked(c, w) ==
    IF c = Null THEN Decision("return", NoError)
    ELSE IF ~IsConnected(w) THEN Decision("setError", ConnectWalletMessage)
    ELSE Decision("execute", NoError)

useContract_increment(c, w) ==
    IF c = Null THEN Decision("return", NoError)
    ELSE IF ~IsConnected(w) THEN Decision("setError", ConnectWalletMessage)
    ELSE IF c.count >= c.maxCount
    THEN Decision("setError", ERROR_MESSAGES.MAX_COUNT_EXCEEDED)
    ELSE Decision("execute", NoError)

\* decrement of the hook without the test of the cached count.
useContract_decrement_Unchecked(c, w) ==
    IF c = Null THEN Decision("return", NoError)
    ELSE IF ~IsConnected(w) THEN Decision("setError", ConnectWalletMessage)
    ELSE Decision("execute", NoError)

useContract_decrement(c, w) ==
    IF c = Null THEN Decision("return", NoError)
    ELSE IF ~IsConnected(w) THEN Decision("setError", ConnectWalletMessage)
    ELSE IF c.count <= c.minCount
    THEN Decision("setError", ERROR_MESSAGES.MIN_COUNT_EXCEEDED)
    ELSE Decision("execute", NoError)

useContract_incrementBy(c, w, amount) ==
    IF c = Null THEN Decision("return", NoError)
    ELSE IF ~IsConnected(w) THEN Decision("setError", ConnectWalletMessage)
    ELSE IF amount < MIN_INCREMENT_AMOUNT \/ amount > MAX_INCREMENT_AMOUNT
    THEN Decision("setError", AmountRangeMessage)
    ELSE IF c.count + amount > c.maxCount
    THEN Decision("setError", ERROR_MESSAGES.MAX_COUNT_EXCEEDED)
    ELSE Decision("execute", NoError)

useContract_decrementBy(c, w, amount) ==
    IF c = Null THEN Decision("return", NoError)
    ELSE IF ~IsConnected(w) THEN Decision("setError", ConnectWalletMessage)
    ELSE IF amount < MIN_DECREMENT_AMOUNT \/ amount > MAX_DECREMENT_AMOUNT
    THEN Decision("setError", AmountRangeMessage)
    ELSE IF c.count - amount < c.minCount
    THEN Decision("setError", ERROR_MESSAGES.MIN_COUNT_EXCEEDED)
    ELSE Decision("execute", NoError)

useContract_reset(c, w) ==
    IF c = Null \/ w = Null THEN Decision("return", NoError)
    ELSE IF c.owner # userAddress(w.accountId)
    THEN Decision("setError", OwnerOnlyMessage)
    ELSE Decision("execute", NoError)

\* executeContractFunction up to `await operation()`: the two tests of the
\* cache, then the WalletManager, which throws without a current wallet
\* (the throw is caught and becomes the error) and submits otherwise.
executeContractFunction(c, cw) ==
    IF c = Null
    THEN Decision("setError", ERROR_MESSAGES.CONTRACT_NOT_DEPLOYED)
    ELSE IF c.isPaused
    THEN Decision("setError", ERROR_MESSAGES.CONTRACT_PAUSED)
    ELSE IF cw = Null
    THEN Decision("threw", ERROR_MESSAGES.WALLET_NOT_CONNECTED)
    ELSE Decision("submitted", NoError)

\* The hook function `functionName` called with cache c, session w and
\* the manager's wallet cw.
HookCall(functionName, amount, c, w, cw) ==
    LET d == CASE functionName = "increment" -> useContract_increment(c, w)
               [] functionName = "decrement" -> useContract_decrement(c, w)
               [] functionName = "incrementBy" ->
                      useContract_incrementBy(c, w, amount)
               [] functionName = "decrementBy" ->
                      useContract_decrementBy(c, w, amount)
               [] functionName = "reset" -> useContract_reset(c, w)
    IN  IF d.outcome = "execute" THEN executeContractFunction(c, cw) ELSE d

\* formatWalletError(error)
formatWalletError(message) ==
    IF message = UserRejected THEN ERROR_MESSAGES.WALLET_REJECTED
    ELSE message

\* The setContract(prev => ...) of a successful acknowledgment; the result
\* of incrementBy/decrementBy carries the amount, no other result does, and
\* no branch is taken for any other function.
Optimistic(c, functionName, amount) ==
    IF c = Null THEN Null
    ELSE IF functionName = "increment" THEN [c EXCEPT !.count = @ + 1]
    ELSE IF functionName = "decrement" THEN [c EXCEPT !.count = @ - 1]
    ELSE IF functionName = "incrementBy" /\ amount # 0
    THEN [c EXCEPT !.count = @ + amount]
    ELSE IF functionName = "decrementBy" /\ amount # 0
    THEN [c EXCEPT !.count = @ - amount]
    ELSE c

\* What the page's handler passes to addTransaction.
Request(functionName, amount) ==
    IF functionName \in {"incrementBy", "decrementBy"}
    THEN [type |-> functionName, status |-> "pending", amount |-> amount]
    ELSE [type |-> functionName, status |-> "pending"]

\* The handler's update after `await` returned: the hook functions return
\* nothing, so result?.transactionId is undefined.
SuccessUpdate == [status |-> "success", hash |-> Undefined]

\* A refresh() that has started and not read the ledger yet. The program
\* keeps nothing about a refresh in flight; `superseded` notes for the
\* properties that a refresh started later has already resolved.
NewRefresh == [data |-> Null, failed |-> FALSE, superseded |-> FALSE]

Remove(seq, i) == SubSeq(seq, 1, i - 1) \o SubSeq(seq, i + 1, Len(seq))

\* The refreshes in flight once refresh i has resolved: it is gone, and
\* those that started before it are superseded.
Resolve(rs, i) ==
    Remove([j \in 1..Len(rs) |->
               IF j < i THEN [rs[j] EXCEPT !.superseded = TRUE] ELSE rs[j]],
           i)

\* setIsLoading(true); setError(null) and the queries are under way.
BeginRefresh ==
    /\ Len(refreshes) < MaxInFlight
    /\ isLoading' = TRUE
    /\ error' = NoError
    /\ refreshes' = Append(refreshes, NewRefresh)

\* The page passes another session: the effects hand it to the
\* WalletManager and call refresh().
SetWallet ==
    \E w \in Wallets :
        /\ w # wallet
        /\ ticks < MaxRefreshes
        /\ wallet' = w
        /\ currentWallet' = w
        /\ ticks' = ticks + 1
        /\ BeginRefresh
        /\ UNCHANGED <<ledgerVars, reads, sessionVars, historyVars, contract,
                       pending, timers, calls, acks, lastRead, retry>>

\* setInterval(refresh, REFRESH_INTERVAL) fires.
IntervalRefresh ==
    /\ ticks < MaxRefreshes
    /\ ticks' = ticks + 1
    /\ BeginRefresh
    /\ UNCHANGED <<ledgerVars, reads, sessionVars, historyVars, wallet,
                   currentWallet, contract, pending, timers, calls, acks,
                   lastRead, retry>>

\* The setTimeout(refresh, 1000) of an acknowledged operation fires.
TimerRefresh ==
    /\ timers > 0
    /\ timers' = timers - 1
    /\ BeginRefresh
    /\ UNCHANGED <<ledgerVars, reads, sessionVars, historyVars, wallet,
                   currentWallet, contract, pending, ticks, calls, acks,
                   lastRead, retry>>

\* The queries of a refresh in flight reach the ledger, or fail.
RefreshRead ==
    \E i \in 1..Len(refreshes), ok \in BOOLEAN :
        /\ refreshes[i].data = Null
        /\ refreshes' =
              [refreshes EXCEPT
                 ![i] = [data |-> contractData(Storage, ok), failed |-> ~ok,
                         superseded |-> refreshes[i].superseded]]
        /\ lastRead' = count
        /\ UNCHANGED <<ledgerVars, reads, sessionVars, historyVars, wallet,
                       currentWallet, contract, isLoading, error, pending,
                       timers, ticks, calls, acks, retry>>

\* A refresh in flight resolves: setContract(contractData) and, in its
\* finally, setIsLoading(false).
RefreshCompleteAt(i) ==
    /\ refreshes[i].data # Null
    /\ contract' = refreshes[i].data
    /\ isLoading' = FALSE
    /\ refreshes' = Resolve(refreshes, i)
    /\ UNCHANGED <<ledgerVars, reads, sessionVars, historyVars, wallet,
                   currentWallet, error, pending, timers, ticks, calls, acks,
                   lastRead, retry>>

RefreshComplete == \E i \in 1..Len(refreshes) : RefreshCompleteAt(i)

\* A mutating function of the hook is called and runs up to the first
\* await that waits; `record` is the id of the history record the caller
\* keeps for the operation (Undefined when it keeps none).
HookStep(functionName, amount, record) ==
    LET d == HookCall(functionName, amount, contract, wallet, currentWallet)
    IN  /\ calls < MaxOps
        /\ calls' = calls + 1
        /\ error' = (IF d.outcome \in {"setError", "threw"} THEN d.message
                     ELSE IF d.outcome = "submitted" THEN NoError
                     ELSE error)
        /\ isLoading' = (IF d.outcome = "submitted" THEN TRUE
                         ELSE IF d.outcome = "threw" THEN FALSE
                         ELSE isLoading)
        /\ pending' =
              (IF d.outcome = "submitted"
               THEN Append(pending,
                           [functionName |-> functionName, amount |-> amount,
                            sender |-> currentWallet.accountId.value,
                            record |-> record])
               ELSE pending)
        /\ UNCHANGED <<ledgerVars, reads, sessionVars, wallet, currentWallet,
                       contract, refreshes, timers, ticks, acks, lastRead,
                       retry>>

\* The answer of the wallet where a submission that failed is made again.
AckStep_Resubmits(i, approved) ==
    LET p == pending[i]
        res == Call(p.functionName, Storage, p.sender, p.amount)
        success == approved /\ res.error = "none"
        message == IF ~approved THEN UserRejected ELSE res.error
    IN  /\ count' = (IF approved THEN res.st.count ELSE count)
        /\ owner' = (IF approved THEN res.st.owner ELSE owner)
        /\ paused' = (IF approved THEN res.st.paused ELSE paused)
        /\ txCount' = (IF approved THEN txCount + 1 ELSE txCount)
        /\ pending' = (IF success THEN Remove(pending, i) ELSE pending)
        /\ isLoading' = FALSE
        /\ acks' = (IF success THEN acks + 1 ELSE acks)
        /\ success => Len(refreshes) < MaxInFlight
        /\ IF success
           THEN /\ contract' = Optimistic(contract, p.functionName, p.amount)
                /\ error' = NoError
                /\ refreshes' = Append(refreshes, NewRefresh)
                /\ timers' = timers + 1
           ELSE /\ error' = formatWalletError(message)
                /\ UNCHANGED <<contract, refreshes, timers>>
        /\ UNCHANGED <<lastCall, prevCall, lastTransfer, reads, sessionVars,
                       wallet, currentWallet, ticks, calls, lastRead, retry>>

\* The wallet answers submission i. The user rejects it, or the wallet
\* sends it and the ledger executes the call for the wallet's account: a
\* revert is a failed result. On success executeContractFunction updates
\* the cache, calls refresh() and sets the timer of a second refresh; on
\* failure it sets the error. Its finally clears isLoading.
AckStep(i, approved) ==
    LET p == pending[i]
        res == Call(p.functionName, Storage, p.sender, p.amount)
        success == approved /\ res.error = "none"
        message == IF ~approved THEN UserRejected ELSE res.error
    IN  /\ count' = (IF approved THEN res.st.count ELSE count)
        /\ owner' = (IF approved THEN res.st.owner ELSE owner)
        /\ paused' = (IF approved THEN res.st.paused ELSE paused)
        /\ txCount' = (IF approved THEN txCount + 1 ELSE txCount)
        /\ pending' = Remove(pending, i)
        /\ isLoading' = FALSE
        /\ acks' = (IF success THEN acks + 1 ELSE acks)
        /\ success => Len(refreshes) < MaxInFlight
        /\ IF success
           THEN /\ contract' = Optimistic(contract, p.functionName, p.amount)
                /\ error' = NoError
                /\ refreshes' = Append(refreshes, NewRefresh)
                /\ timers' = timers + 1
           ELSE /\ error' = formatWalletError(message)
                /\ UNCHANGED <<contract, refreshes, timers>>
        /\ UNCHANGED <<lastCall, prevCall, lastTransfer, reads, sessionVars,
                       wallet, currentWallet, ticks, calls, lastRead, retry>>

\* The hook's functions called by a component that keeps no history.
CallIncrement == HookStep("increment", 0, Undefined) /\ UNCHANGED historyVars

CallDecrement == HookStep("decrement", 0, Undefined) /\ UNCHANGED historyVars

CallIncrementBy ==
    \E amount \in ClientAmounts :
        HookStep("incrementBy", amount, Undefined) /\ UNCHANGED historyVars

CallDecrementBy ==
    \E amount \in ClientAmounts :
        HookStep("decrementBy", amount, Undefined) /\ UNCHANGED historyVars

CallReset == HookStep("reset", 0, Undefined) /\ UNCHANGED historyVars

WalletRespond ==
    \E i \in 1..Len(pending), approved \in BOOLEAN :
        AckStep(i, approved) /\ UNCHANGED historyVars

\* Another party's transaction on the ledger.
OtherFunctions == {"increment", "decrement", "reset", "pause", "unpause"}

OtherTransact ==
    \E sender \in Senders, op \in OtherFunctions :
        \E arg \in ArgsOf(op) :
            LET res == Call(op, Storage, sender, arg)
            IN  /\ txCount < MaxOtherTx
                /\ count' = res.st.count
                /\ owner' = res.st.owner
                /\ paused' = res.st.paused
                /\ txCount' = txCount + 1
                /\ UNCHANGED <<lastCall, prevCall, lastTransfer, reads,
                               clientVars>>

\* The page is mounted: no session yet, the first refresh() is in flight.
\* The counter was deployed at one of its two bounds.
ClientInitialCounts == {MIN_COUNT, MAX_COUNT}

ClientInit ==
    /\ DeployedWith(ClientInitialCounts)
    /\ HistoryIdle
    /\ HookState(TRUE, <<NewRefresh>>)
    /\ SessionIdle
    /\ retry = RetryIdle

ClientNext ==
    \/ SetWallet
    \/ IntervalRefresh
    \/ TimerRefresh
    \/ RefreshRead
    \/ RefreshComplete
    \/ CallIncrement
    \/ CallDecrement
    \/ CallIncrementBy
    \/ CallDecrementBy
    \/ CallReset
    \/ WalletRespond
    \/ OtherTransact

ClientSpec == ClientInit /\ [][ClientNext]_vars

\* --------------------------------------------------------------- page
\* frontend/src/pages/index.tsx: the handlers that keep the history.
\* `const txId = addTransaction(...)`: the function returns nothing.
AddTransactionResult == Undefined

\* A handler runs up to the first await that waits: it adds the pending
\* record and calls the hook function. When nothing was submitted the hook
\* function has returned, without a result and without throwing, and the
\* handler marks txId a success.
Handle(functionName, amount) ==
    LET d == HookCall(functionName, amount, contract, wallet, currentWallet)
        added == addTransaction(transactions, Request(functionName, amount),
                                now)
        txId == AddTransactionResult
    IN  /\ HookStep(functionName, amount, now)
        /\ now' = now + 1
        /\ transactions' =
              (IF d.outcome = "submitted" THEN added
               ELSE updateTransaction(added, txId, SuccessUpdate))

HandleIncrement == Handle("increment", 0)

HandleDecrement == Handle("decrement", 0)

HandleIncrementBy == \E amount \in ClientAmounts : Handle("incrementBy", amount)

HandleDecrementBy == \E amount \in ClientAmounts : Handle("decrementBy", amount)

HandleReset == Handle("reset", 0)

\* The wallet answers submission i and the handler goes on after its
\* await: the hook function never throws, so the handler marks txId a
\* success whatever the answer was.
HandleResolvedAt(i, approved) ==
    /\ AckStep(i, approved)
    /\ transactions' =
          updateTransaction(transactions, AddTransactionResult, SuccessUpdate)
    /\ now' = now

HandleResolved ==
    \E i \in 1..Len(pending), approved \in BOOLEAN :
        HandleResolvedAt(i, approved)

PageNext ==
    \/ SetWallet
    \/ IntervalRefresh
    \/ TimerRefresh
    \/ RefreshRead
    \/ RefreshComplete
    \/ HandleIncrement
    \/ HandleDecrement
    \/ HandleIncrementBy
    \/ HandleDecrementBy
    \/ HandleReset
    \/ HandleResolved

PageSpec == ClientInit /\ [][PageNext]_vars

\* ------------------------------------------------------------ session
\* The hook useWallet (hooks/useWallet.ts) with its two backends, the
\* MetaMaskWallet of frontend/src/utils/metamask.ts and the
\* HashPackWalletManager of utils/hashpack.ts, and the localStorage keys
\* they write. A page load builds both backends and mounts the hook.
HashPackKey == "hashpack_wallet_connection"
MetaMaskKey == "metamask_connection"
StorageKeys == {HashPackKey, MetaMaskKey}

\* ENV.HEDERA_NETWORK, and the default network of MetaMaskWallet.connect.
HEDERA_NETWORK == "testnet"

\* A stored text that JSON.parse throws on, and the text of a JSON value.
Corrupted == [text |-> "corrupted"]
Json(value) == [text |-> "json", value |-> value]
\* JSON.stringify(connection): a field that is undefined is not written,
\* which is how an object of the model lacks it.
stringify(connection) == Json(connection)

\* connection?.isConnected as a condition: the object exists, has the
\* field and the field is true.
Connected(connection) ==
    /\ connection # Null
    /\ "isConnected" \in DOMAIN connection
    /\ connection.isConnected

\* The fields `names` of obj, as far as it has them.
Pick(obj, names) == [f \in (DOMAIN obj) \cap names |-> obj[f]]

\* { ...connection, ...fields } where connection may be null.
SpreadOver(connection, fields) ==
    IF connection = Null THEN fields ELSE Spread(connection, fields)

\* addressToAccountId(address): `0.0.${parseInt(address.slice(-8), 16) %
\* 10000000}`
addressToAccountId(address) == AccountId(address % 10000000)

\* The connection MetaMaskWallet.connect builds for accounts[0]; the
\* balance text is left out of every connection of the model.
MetaMaskConnection(address) ==
    [accountId |-> addressToAccountId(address), isConnected |-> TRUE,
     network |-> HEDERA_NETWORK, walletType |-> "metamask",
     address |-> address]

\* The connection HashPackWalletManager.connectWallet builds.
HashPackConnection(account) ==
    [accountId |-> AccountId(account), network |-> HEDERA_NETWORK,
     isConnected |-> TRUE, walletType |-> "hashpack"]

\* HashPackWalletManager.loadSavedConnection, run by the constructor: the
\* connection it leaves and what is stored afterwards. JSON.parse throws
\* on a corrupted text and reading a field of the parsed null throws too;
\* both are caught and the key is removed.
HashPack_loadSavedConnection(saved) ==
    IF saved = Absent THEN [connection |-> Null, saved |-> Absent]
    ELSE IF saved = Corrupted \/ saved.value = Null
    THEN [connection |-> Null, saved |-> Absent]
    ELSE [connection |->
              Pick(saved.value, {"accountId", "network", "isConnected",
                                 "walletType", "balance"}),
          saved |-> saved]

\* MetaMaskWallet.loadSavedConnection: the connection it sets and returns,
\* or null. Whatever JSON.parse or the test throws is caught; the key is
\* never removed.
MetaMask_loadSavedConnection(saved, available) ==
    IF saved = Absent \/ saved = Corrupted THEN Null
    ELSE IF ~available THEN Null
    ELSE IF saved.value = Null THEN Null
    ELSE IF Connected(saved.value) THEN saved.value
    ELSE Null

\* A page load with `storage` stored: the module builds the HashPack
\* manager, whose constructor loads its saved connection, and the MetaMask
\* wallet; then the mount effect of useWallet takes the HashPack
\* connection if it is connected and asks getMetaMaskConnection()
\* otherwise.
PageLoad(storage, available) ==
    LET hp == HashPack_loadSavedConnection(storage[HashPackKey])
        stored == [storage EXCEPT ![HashPackKey] = hp.saved]
        mm == MetaMask_loadSavedConnection(stored[MetaMaskKey], available)
    IN  [hashPack |-> hp.connection,
         localStorage |-> stored,
         metaMask |-> IF Connected(hp.connection) THEN Null ELSE mm,
         wallet |-> IF Connected(hp.connection) THEN hp.connection
                    ELSE IF Connected(mm) THEN mm
                    ELSE Null]

\* Error texts of the connect paths.
MetaMaskNotInstalled ==
    "MetaMask is not installed. Please install the MetaMask browser extension."
SwitchFailed == "Failed to switch to Hedera testnet"
BalanceFailed == "could not fetch balance"
HashPackFailed ==
    "Failed to connect to HashPack via WalletConnect: User rejected the request"

\* A connect() call that has reached the backend and waits for it.
NewHandshake(walletType) == [walletType |-> walletType, abandoned |-> FALSE]

\* Every handshake in flight is marked: disconnect was called meanwhile.
Abandon(hs) == [i \in 1..Len(hs) |-> [hs[i] EXCEPT !.abandoned = TRUE]]

WalletTypes == {"metamask", "hashpack"}

\* The page has been loaded: `events` counts the page loads and the
\* backend events.
Loaded == events > 0

\* useWallet.connect(walletType) up to the await of the backend. Without
\* MetaMask the call throws before it waits: the catch sets the error and
\* the finally clears isConnecting.
Connect ==
    \E walletType \in WalletTypes :
        LET missing == walletType = "metamask" /\ ~provider
        IN  /\ Loaded
            /\ connects < MaxConnects
            /\ connects' = connects + 1
            /\ isConnecting' = ~missing
            /\ walletError' = (IF missing THEN MetaMaskNotInstalled
                               ELSE NoError)
            /\ handshakes' = (IF missing THEN handshakes
                              ELSE Append(handshakes,
                                          NewHandshake(walletType)))
            /\ UNCHANGED <<ledgerVars, reads, historyVars, hookVars, provider,
                           chainId, localStorage, hashPack, metaMask, signer,
                           accountUpdates, submitted, loggedOut, events,
                           retry>>

\* The state after window.location.reload(), or after the page was opened
\* again: nothing in flight survives, the storage does.
Reloaded ==
    LET page == PageLoad(localStorage, provider)
    IN  /\ hashPack' = page.hashPack
        /\ localStorage' = page.localStorage
        /\ metaMask' = page.metaMask
        /\ wallet' = page.wallet
        /\ currentWallet' = page.wallet
        /\ signer' = Null
        /\ isConnecting' = FALSE
        /\ walletError' = NoError
        /\ handshakes' = <<>>
        /\ accountUpdates' = <<>>

\* useWallet's catch and finally after the backend threw `message`.
ConnectFailed(i, message) ==
    /\ walletError' = message
    /\ isConnecting' = FALSE
    /\ handshakes' = Remove(handshakes, i)
    /\ UNCHANGED <<wallet, currentWallet, loggedOut>>

\* setWallet(connection) and the finally of useWallet.connect; the effect
\* of useContract hands the session to the WalletManager.
ConnectSucceeded(i, connection) ==
    /\ wallet' = connection
    /\ currentWallet' = connection
    /\ isConnecting' = FALSE
    /\ handshakes' = Remove(handshakes, i)
    /\ loggedOut' = FALSE
    /\ UNCHANGED walletError

MetaMaskOutcomes == {"rejected", "switchFailed", "balanceFailed", "connected"}

\* MetaMaskWallet.connect goes on after eth_requestAccounts. The user
\* rejects the request (or no account is unlocked); or the switch to the
\* Hedera chain fails; or the chain is switched, which makes MetaMask emit
\* chainChanged when it was another chain, and the handler reloads the
\* page; or, on the Hedera chain, the signer is taken and the balance
\* read, which can fail; or the connection is built, saved and returned.
MetaMaskHandshakeAt(i, outcome, address) ==
    LET connection == MetaMaskConnection(address)
    IN  /\ handshakes[i].walletType = "metamask"
        /\ CASE outcome = "rejected" ->
                  /\ ConnectFailed(i, UserRejected)
                  /\ UNCHANGED <<chainId, localStorage, hashPack, metaMask,
                                 signer, accountUpdates>>
             [] outcome = "switchFailed" ->
                  /\ chainId # HederaChain
                  /\ ConnectFailed(i, SwitchFailed)
                  /\ UNCHANGED <<chainId, localStorage, hashPack, metaMask,
                                 signer, accountUpdates>>
             [] outcome \in {"balanceFailed", "connected"}
                  /\ chainId # HederaChain ->
                  /\ chainId' = HederaChain
                  /\ Reloaded
                  /\ UNCHANGED loggedOut
             [] outcome = "balanceFailed" /\ chainId = HederaChain ->
                  /\ signer' = [address |-> address]
                  /\ ConnectFailed(i, BalanceFailed)
                  /\ UNCHANGED <<chainId, localStorage, hashPack, metaMask,
                                 accountUpdates>>
             [] outcome = "connected" /\ chainId = HederaChain ->
                  /\ signer' = [address |-> address]
                  /\ metaMask' = connection
                  /\ localStorage' =
                        [localStorage EXCEPT
                           ![MetaMaskKey] = stringify(connection)]
                  /\ ConnectSucceeded(i, connection)
                  /\ UNCHANGED <<chainId, hashPack, accountUpdates>>
        /\ UNCHANGED <<ledgerVars, reads, historyVars, contract, isLoading,
                       error, pending, refreshes, timers, ticks, calls, acks,
                       lastRead, provider, submitted, connects, events,
                       retry>>

MetaMaskHandshake ==
    \E i \in 1..Len(handshakes), outcome \in MetaMaskOutcomes,
       address \in Senders :
        MetaMaskHandshakeAt(i, outcome, address)

\* HashPackWalletManager.connectWallet goes on after openModal(): it
\* throws (the modal was closed, no account was found), or the connection
\* is built, saved and returned.
HashPackHandshakeAt(i, ok, account) ==
    LET connection == HashPackConnection(account)
    IN  /\ handshakes[i].walletType = "hashpack"
        /\ IF ok
           THEN /\ hashPack' = connection
                /\ localStorage' =
                      [localStorage EXCEPT
                         ![HashPackKey] = stringify(connection)]
                /\ ConnectSucceeded(i, connection)
           ELSE /\ ConnectFailed(i, HashPackFailed)
                /\ UNCHANGED <<hashPack, localStorage>>
        /\ UNCHANGED <<ledgerVars, reads, historyVars, contract, isLoading,
                       error, pending, refreshes, timers, ticks, calls, acks,
                       lastRead, provider, chainId, metaMask, signer,
                       accountUpdates, submitted, connects, events, retry>>

HashPackHandshake ==
    \E i \in 1..Len(handshakes), ok \in BOOLEAN, account \in Senders :
        HashPackHandshakeAt(i, ok, account)

\* MetaMaskWallet.disconnect()
MetaMask_disconnect ==
    /\ metaMask' = Null
    /\ signer' = Null
    /\ localStorage' = [localStorage EXCEPT ![MetaMaskKey] = Absent]

\* HashPackWalletManager.disconnectWallet(): with a WalletConnect session
\* (one exists while the manager holds a connection) it awaits
\* dAppConnector.disconnect; when that throws, the catch logs and nothing
\* is cleared.
HashPack_disconnectWallet(throws) ==
    IF hashPack # Null /\ throws
    THEN UNCHANGED <<hashPack, localStorage>>
    ELSE /\ hashPack' = Null
         /\ localStorage' = [localStorage EXCEPT ![HashPackKey] = Absent]

\* useWallet.disconnect(): the backend of the current session's wallet
\* type, the HashPack one when there is no session; then setWallet(null)
\* and setError(null).
DisconnectWith(throws) ==
    /\ Loaded
    /\ IF wallet # Null /\ wallet.walletType = "metamask"
       THEN MetaMask_disconnect /\ UNCHANGED hashPack
       ELSE HashPack_disconnectWallet(throws) /\ UNCHANGED <<metaMask, signer>>
    /\ wallet' = Null
    /\ currentWallet' = Null
    /\ walletError' = NoError
    /\ handshakes' = Abandon(handshakes)
    /\ loggedOut' = TRUE
    /\ UNCHANGED <<ledgerVars, reads, historyVars, contract, isLoading, error,
                   pending, refreshes, timers, ticks, calls, acks, lastRead,
                   provider, chainId, isConnecting, accountUpdates, submitted,
                   connects, events, retry>>

Disconnect == \E throws \in BOOLEAN : DisconnectWith(throws)

\* What no backend event changes: the ledger, the history, the hook
\* useContract and the state of useWallet.
EventFrame ==
    /\ Loaded
    /\ events < MaxEvents
    /\ events' = events + 1
    /\ UNCHANGED <<ledgerVars, reads, historyVars, hookVars, provider,
                   chainId, hashPack, isConnecting, walletError, handshakes,
                   submitted, loggedOut, connects, retry>>

\* provider.on('accountsChanged') with no account.
AccountsEmptied ==
    /\ provider
    /\ MetaMask_disconnect
    /\ EventFrame
    /\ UNCHANGED accountUpdates

\* provider.on('accountsChanged') with accounts[0] = address:
\* updateConnection returns without a connection and waits for the balance
\* of the new account otherwise.
AccountsChangedTo(address) ==
    /\ provider
    /\ accountUpdates' = (IF metaMask = Null THEN accountUpdates
                          ELSE Append(accountUpdates, address))
    /\ EventFrame
    /\ UNCHANGED <<metaMask, signer, localStorage>>

AccountsChanged == \E address \in Senders : AccountsChangedTo(address)

\* provider.on('disconnect')
ProviderDisconnected ==
    /\ provider
    /\ MetaMask_disconnect
    /\ EventFrame
    /\ UNCHANGED accountUpdates

\* updateConnection goes on after getBalance: the connection is spread
\* into a new one with the new account and saved, or the read failed and
\* the catch logs.
UpdateCompleteAt(i, ok) ==
    LET address == accountUpdates[i]
        connection ==
            SpreadOver(metaMask,
                       [accountId |-> addressToAccountId(address),
                        address |-> address])
    IN  /\ accountUpdates' = Remove(accountUpdates, i)
        /\ IF ok
           THEN /\ metaMask' = connection
                /\ localStorage' =
                      [localStorage EXCEPT
                         ![MetaMaskKey] = stringify(connection)]
           ELSE UNCHANGED <<metaMask, localStorage>>
        /\ UNCHANGED <<ledgerVars, reads, historyVars, hookVars, provider,
                       chainId, hashPack, signer, isConnecting, walletError,
                       handshakes, submitted, loggedOut, connects, events,
                       retry>>

UpdateComplete ==
    \E i \in 1..Len(accountUpdates), ok \in BOOLEAN : UpdateCompleteAt(i, ok)

\* provider.on('chainChanged'): the user has put MetaMask on another
\* chain and the handler reloads the page.
ChainChanged ==
    \E chain \in {HederaChain, OtherChain} :
        /\ provider
        /\ Loaded
        /\ chain # chainId
        /\ events < MaxEvents
        /\ events' = events + 1
        /\ chainId' = chain
        /\ Reloaded
        /\ UNCHANGED <<ledgerVars, reads, historyVars, contract, isLoading,
                       error, pending, refreshes, timers, ticks, calls, acks,
                       lastRead, provider, submitted, loggedOut, connects,
                       retry>>

\* The user opens the page, for the first time or again.
Startup ==
    /\ events < MaxEvents
    /\ events' = events + 1
    /\ Reloaded
    /\ UNCHANGED <<ledgerVars, reads, historyVars, contract, isLoading, error,
                   pending, refreshes, timers, ticks, calls, acks, lastRead,
                   provider, chainId, submitted, loggedOut, connects, retry>>

\* MetaMaskWallet.executeContract without the test of the signer.
MetaMask_executeContract_NoSigner(sgn, connection) == Connected(connection)

\* MetaMaskWallet.executeContract: whether the call reaches the contract
\* method, that is MetaMask, or returns 'Wallet not connected' before.
MetaMask_executeContract(sgn, connection) ==
    sgn # Null /\ Connected(connection)

\* A counting function of useContract passes its tests, with a loaded
\* cache, and WalletManager.executeContract routes the call of a MetaMask
\* session to metaMaskWallet, which hands the transaction to MetaMask.
ExecuteContract ==
    /\ IsConnected(wallet)
    /\ currentWallet # Null
    /\ currentWallet.walletType = "metamask"
    /\ MetaMask_executeContract(signer, metaMask)
    /\ submitted' = [chainId |-> chainId, from |-> signer]
    /\ submitted' # submitted
    /\ UNCHANGED <<ledgerVars, reads, historyVars, hookVars, provider,
                   chainId, localStorage, hashPack, metaMask, signer,
                   isConnecting, walletError, handshakes, accountUpdates,
                   loggedOut, connects, events, retry>>

\* What a browser can hold under the two keys when the page is first
\* loaded: nothing, or under one key a text that does not parse, the text
\* null, an object that lacks the fields of a connection, or a
\* connection saved earlier.
StoredTexts(key) ==
    {Corrupted, Json(Null), Json([accountId |-> AccountId(1)]),
     Json(IF key = MetaMaskKey THEN MetaMaskConnection(1)
          ELSE HashPackConnection(1))}

InitialStorage ==
    {[key \in StorageKeys |-> Absent]} \cup
    UNION {{[key \in StorageKeys |-> IF key = k THEN text ELSE Absent] :
               text \in StoredTexts(k)} : k \in StorageKeys}

\* The browser before the page is loaded for the first time.
WalletInit ==
    /\ DeployedWith({MIN_COUNT})
    /\ HistoryIdle
    /\ HookState(FALSE, <<>>)
    /\ provider \in BOOLEAN
    /\ chainId \in {HederaChain, OtherChain}
    /\ localStorage \in InitialStorage
    /\ hashPack = Null
    /\ metaMask = Null
    /\ signer = Null
    /\ isConnecting = FALSE
    /\ walletError = NoError
    /\ handshakes = <<>>
    /\ accountUpdates = <<>>
    /\ submitted = Null
    /\ loggedOut = FALSE
    /\ connects = 0
    /\ events = 0
    /\ retry = RetryIdle

WalletNext ==
    \/ Connect
    \/ MetaMaskHandshake
    \/ HashPackHandshake
    \/ Disconnect
    \/ AccountsEmptied
    \/ AccountsChanged
    \/ ProviderDisconnected
    \/ UpdateComplete
    \/ ChainChanged
    \/ Startup
    \/ ExecuteContract

WalletSpec == WalletInit /\ [][WalletNext]_vars

\* What each view function has to return in storage `st`.
Expected(fn, st) ==
    CASE fn = "getCount" -> <<st.count>>
      [] fn = "getOwner" -> <<st.owner>>
      [] fn = "isPaused" -> <<st.paused>>
      [] fn = "getContractInfo" -> <<st.count, st.owner, st.paused, 1000000, 0>>

\* C11: a view call succeeds for every caller and leaves count, owner and
\* paused as they were; every value read since the last transaction is the
\* value of the current storage, with maxCount 1000000 and minCount 0, so
\* two getContractInfo reads with no transaction between them are equal.
C11_ReadsChangeNothing ==
    [][/\ Len(reads') > 0 => Storage' = Storage
       /\ \A i \in 1..Len(reads') :
             /\ reads'[i].error = "none"
             /\ reads'[i].value = Expected(reads'[i].fn, Storage')
       /\ (Len(reads') = 2 /\ reads'[1].fn = "getContractInfo"
              /\ reads'[2].fn = "getContractInfo") =>
             reads'[1].value = reads'[2].value
      ]_vars

\* After a transaction changed the deployed state, two accounts called
\* getContractInfo one after the other and read the same values.
C11_Witness ==
    /\ txCount > 0
    /\ Len(reads) = 2
    /\ reads[1].fn = "getContractInfo"
    /\ reads[2].fn = "getContractInfo"
    /\ reads[1].caller # reads[2].caller
    /\ reads[1].value = reads[2].value
    /\ reads[2].value[1] = count
    /\ count # lastCall.pre.count

\* The one event a successful call of `call.op` has to emit, given the
\* storage `st` the call left.
ExpectedEvent(call, st) ==
    CASE call.op \in {"increment", "incrementBy"} ->
            Event("CountIncremented", <<st.count, call.sender>>)
      [] call.op \in {"decrement", "decrementBy"} ->
            Event("CountDecremented", <<st.count, call.sender>>)
      [] call.op = "reset" -> Event("CountReset", <<call.sender>>)
      [] call.op = "pause" -> Event("ContractPaused", <<call.sender>>)
      [] call.op = "unpause" -> Event("ContractUnpaused", <<call.sender>>)
      [] call.op = "transferOwnership" ->
            Event("OwnershipTransferred", <<call.pre.owner, call.arg>>)

\* C12: a successful mutating call emits exactly one event, of the kind of
\* the function, carrying the count after the call and the caller (the old
\* and the new owner for transferOwnership); a failed call emits none.
C12_OneEventPerSuccess ==
    lastCall.op \in MutatingFunctions =>
        IF lastCall.error = "none"
        THEN lastCall.events = <<ExpectedEvent(lastCall, Storage)>>
        ELSE lastCall.events = <<>>

\* A decrementBy by an account that is not the owner changed count and
\* emitted CountDecremented with the new count and that account.
C12_Witness ==
    /\ lastCall.op = "decrementBy"
    /\ lastCall.error = "none"
    /\ lastCall.sender # owner
    /\ count # lastCall.pre.count
    /\ Len(lastCall.events) = 1
    /\ lastCall.events[1].name = "CountDecremented"
    /\ lastCall.events[1].args = <<count, lastCall.sender>>

\* C13: right after deployment by D with initial count c the storage is
\* count = c, owner = D, paused = FALSE; afterwards the storage changes only
\* in a successful call of one of the eight mutating functions.
C13_DeploymentThenCalls ==
    /\ [](txCount = 0 =>
            /\ lastCall.op = "constructor"
            /\ count = lastCall.arg
            /\ owner = lastCall.sender
            /\ paused = FALSE)
    /\ [][Storage' # Storage =>
            /\ lastCall'.op \in MutatingFunctions
            /\ lastCall'.error = "none"
            /\ txCount' = txCount + 1]_vars

\* The state right after a deployment with a non-zero initial count.
C13_Witness ==
    /\ txCount = 0
    /\ lastCall.op = "constructor"
    /\ lastCall.arg > 0
    /\ count = lastCall.arg
    /\ owner = lastCall.sender
    /\ ~paused

\* C19: the history never holds more than 50 records; they are the most
\* recently added ones, newest first (ids and timestamps descending without
\* a gap from the latest one added); an addTransaction puts the new record
\* in front, keeps the others in their order and, when the history was
\* full, evicts the last one, which is the oldest.
C19_BoundedNewestFirst ==
    /\ [](/\ Len(transactions) <= 50
          /\ \A i \in 1..Len(transactions) :
                /\ transactions[i].id = now - i
                /\ transactions[i].timestamp = now - i)
    /\ [][now' # now =>
            /\ Len(transactions') =
                  (IF Len(transactions) < 50 THEN Len(transactions) + 1
                   ELSE 50)
            /\ transactions'[1].id = now
            /\ transactions'[1].status = "pending"
            /\ \A i \in 2..Len(transactions') :
                  transactions'[i] = transactions[i - 1]]_vars

\* The history is full after more than 50 records were added: record 1 has
\* been evicted, the oldest record kept is the one added 50 adds ago, and a
\* record still in the history has been updated in between.
C19_Witness ==
    /\ now > 52
    /\ Len(transactions) = 50
    /\ transactions[1].id = now - 1
    /\ transactions[50].id = now - 50
    /\ transactions[50].id > 1
    /\ \E i \in 1..50 : transactions[i].status = "error"

\* The cached count a successful acknowledgment of `functionName` implies.
Implied(cached, functionName, amount) ==
    CASE functionName = "increment" -> cached + 1
      [] functionName = "decrement" -> cached - 1
      [] functionName = "incrementBy" -> cached + amount
      [] functionName = "decrementBy" -> cached - amount
      [] functionName = "reset" -> 0

HookFunctions ==
    {"increment", "decrement", "incrementBy", "decrementBy", "reset"}

\* Amounts that pass the range test of incrementBy/decrementBy.
ValidAmounts ==
    {a \in ClientAmounts : a >= 1 /\ a <= 1000}

C15_ReconciledWithLedger ==
    (/\ acks > 0
     /\ pending = <<>>
     /\ refreshes = <<>>
     /\ timers = 0) =>
        (contract # Null /\ contract.count = lastRead)

\* C16: a refresh whose queries failed leaves the cached snapshot as it
\* was.
C16_FailedRefreshKeepsSnapshot ==
    [][\A i \in 1..Len(refreshes) :
          (RefreshCompleteAt(i) /\ refreshes[i].failed /\ contract # Null) =>
              contract' = contract
      ]_vars

\* The client-side precondition of `functionName` fails against cache c.
FailsPreCheck(functionName, amount, c) ==
    CASE functionName = "increment" -> c.count >= c.maxCount
      [] functionName = "decrement" -> c.count <= c.minCount
      [] functionName = "incrementBy" ->
            amount < 1 \/ amount > 1000 \/ c.count + amount > c.maxCount
      [] functionName = "decrementBy" ->
            amount < 1 \/ amount > 1000 \/ c.count - amount < c.minCount
      [] OTHER -> FALSE

\* C17: a call of increment, decrement, incrementBy or decrementBy whose
\* precondition fails against the cache sets an error in the same step,
\* hands nothing to the wallet, and changes neither the cached snapshot nor
\* the ledger.
C17_PreCheckRejects ==
    [][\A functionName \in HookFunctions, amount \in ClientAmounts :
          (/\ HookStep(functionName, amount, Undefined)
           /\ contract # Null
           /\ FailsPreCheck(functionName, amount, contract)) =>
              /\ error' # NoError
              /\ pending' = pending
              /\ contract' = contract
              /\ Storage' = Storage
      ]_vars

\* With a connected wallet, the cache at maxCount and nothing waiting, a
\* call was rejected for exceeding the maximum.
C17_Witness ==
    /\ calls > 0
    /\ IsConnected(wallet)
    /\ contract # Null
    /\ contract.count >= contract.maxCount
    /\ error = ERROR_MESSAGES.MAX_COUNT_EXCEEDED
    /\ pending = <<>>
    /\ acks = 0
    /\ txCount = 0

WalletErrors == {ConnectWalletMessage, ERROR_MESSAGES.WALLET_NOT_CONNECTED}

\* C18: while no wallet session is connected, a call of any of the five
\* mutating functions sets a wallet error in the same step, submits nothing
\* and leaves the cache and the ledger as they were; and nothing is
\* submitted while the WalletManager has no current wallet.
C18_NoWalletNoSubmission ==
    [][\A functionName \in HookFunctions, amount \in ClientAmounts :
          HookStep(functionName, amount, Undefined) =>
              /\ ~IsConnected(wallet) =>
                    /\ error' \in WalletErrors
                    /\ pending' = pending
                    /\ contract' = contract
                    /\ Storage' = Storage
              /\ currentWallet = Null => pending' = pending
      ]_vars

\* The ledger accepts submission i.
Accepted(i) ==
    Call(pending[i].functionName, Storage, pending[i].sender,
         pending[i].amount).error = "none"

\* The status of the record with this id, "none" when the history has no
\* such record.
StatusOf(txs, id) ==
    LET found == {k \in 1..Len(txs) : txs[k].id = id}
    IN  IF found = {} THEN "none" ELSE txs[CHOOSE k \in found : TRUE].status

\* C20: a record is created pending; in the step in which its submission
\* resolves it becomes success when the submission succeeded and error when
\* the wallet or the ledger rejected it; a record that is not pending any
\* more never changes.
C20_RecordsResolveOnce ==
    [][/\ now' # now => transactions'[1].id = now
       /\ \A i \in 1..Len(pending), approved \in BOOLEAN :
             HandleResolvedAt(i, approved) =>
                 StatusOf(transactions', pending[i].record) =
                     (IF approved /\ Accepted(i) THEN "success" ELSE "error")
       /\ \A k \in 1..Len(transactions) :
             transactions[k].status # "pending" =>
                 \E j \in 1..Len(transactions') :
                     transactions'[j] = transactions[k]
      ]_vars

\* C21: at most one backend holds a connected session and at most one
\* session descriptor is stored, also after connect was called for one
\* backend while a session of the other one is connected.
C21_OneActiveSession ==
    /\ ~(Connected(hashPack) /\ Connected(metaMask))
    /\ Cardinality({key \in StorageKeys : localStorage[key] # Absent}) <= 1

\* C22: from the return of an explicit disconnect until the next
\* successful connect the hook has no session, no backend is connected and
\* no descriptor is stored, whatever happens in between: a page load, a
\* backend disconnect call that throws, an account update that was waiting
\* for its balance.
C22_DisconnectClears ==
    loggedOut =>
        /\ wallet = Null
        /\ ~Connected(hashPack)
        /\ ~Connected(metaMask)
        /\ \A key \in StorageKeys : localStorage[key] = Absent

\* The fields of a session descriptor (the balance is optional).
DescriptorFields == {"accountId", "isConnected", "network", "walletType"}

\* A stored text that is not a session descriptor: it does not parse, or
\* what it parses to lacks a field of the descriptor.
Unusable(saved) ==
    /\ saved # Absent
    /\ \/ saved = Corrupted
       \/ saved.value = Null
       \/ ~(DescriptorFields \subseteq DOMAIN saved.value)

\* C23: a page load that meets a stored text which is corrupted or not a
\* descriptor removes it from the storage, and ends without a session when
\* nothing else is stored.
C23_BadDescriptorDiscarded ==
    [][Startup =>
          /\ \A key \in StorageKeys :
                Unusable(localStorage[key]) => localStorage'[key] = Absent
          /\ (\A key \in StorageKeys :
                 localStorage[key] = Absent \/ Unusable(localStorage[key]))
                => wallet' = Null
      ]_vars

\* C24: an accountsChanged event without accounts and a disconnect event
\* leave MetaMask without connection, signer and stored descriptor; an
\* accountsChanged event that arrives without a connection leaves it so;
\* the update started by an accountsChanged event with a new account ends,
\* when the wallet is still connected, with the new account in the
\* connection, the network and the wallet type as they were, and the
\* connection stored.
C24_BackendEvents ==
    [][/\ (AccountsEmptied \/ ProviderDisconnected) =>
             /\ metaMask' = Null
             /\ signer' = Null
             /\ localStorage'[MetaMaskKey] = Absent
       /\ \A address \in Senders :
             (AccountsChangedTo(address) /\ metaMask = Null) =>
                 /\ metaMask' = Null
                 /\ accountUpdates' = accountUpdates
       /\ \A i \in 1..Len(accountUpdates), ok \in BOOLEAN :
             (UpdateCompleteAt(i, ok) /\ Connected(metaMask)) =>
                 /\ metaMask'.accountId = addressToAccountId(accountUpdates[i])
                 /\ metaMask'.address = accountUpdates[i]
                 /\ metaMask'.network = metaMask.network
                 /\ metaMask'.walletType = metaMask.walletType
                 /\ Connected(metaMask')
                 /\ localStorage'[MetaMaskKey] = stringify(metaMask')
      ]_vars

\* The session hook where the steps the program takes by itself are taken:
\* the read of a balance returns or fails. Whether and when a backend
\* answers a handshake is left to the backend and the user.
FairWalletSpec == WalletSpec /\ WF_vars(UpdateComplete)

\* C26: a handshake the backend never answers is given up after a bounded
\* time, so that isConnecting returns to false.
C26_HandshakeTimesOut == isConnecting ~> ~isConnecting

\* C27: when disconnect was called while a handshake was waiting for the
\* backend, the completion of that handshake leaves the hook without a
\* connected session and stores no descriptor.
C27_AbandonedHandshake ==
    [][\A i \in 1..Len(handshakes) :
          handshakes[i].abandoned =>
              /\ \A outcome \in MetaMaskOutcomes, address \in Senders :
                    MetaMaskHandshakeAt(i, outcome, address) =>
                        /\ ~Connected(wallet')
                        /\ localStorage'[MetaMaskKey] \in
                               {Absent, localStorage[MetaMaskKey]}
              /\ \A ok \in BOOLEAN, account \in Senders :
                    HashPackHandshakeAt(i, ok, account) =>
                        /\ ~Connected(wallet')
                        /\ localStorage'[HashPackKey] \in
                               {Absent, localStorage[HashPackKey]}
      ]_vars

C25_NoAutomaticRetry ==
    [][/\ \A i \in 1..Len(pending), approved \in BOOLEAN :
             AckStep(i, approved) => pending' = Remove(pending, i)
       /\ Len(pending') > Len(pending) =>
             /\ calls' = calls + 1
             /\ Len(pending') = Len(pending) + 1
       /\ calls' = calls => Len(pending') <= Len(pending)
      ]_vars

\* The wallet has rejected a submission and a revert of the ledger has
\* failed another one; nothing is waiting for the wallet.
C25_Witness ==
    /\ calls = MaxOps
    /\ pending = <<>>
    /\ acks = 0
    /\ txCount > 0
    /\ error \notin {NoError, ERROR_MESSAGES.WALLET_REJECTED}

\* The fixed messages the client shows: those of ERROR_MESSAGES and the
\* literals of useContract.
TaxonomyMessages ==
    {ERROR_MESSAGES[name] : name \in DOMAIN ERROR_MESSAGES} \cup
    {ConnectWalletMessage, AmountRangeMessage, OwnerOnlyMessage}

\* C29: the error the hook shows is null or one of the fixed messages,
\* never the message of the backend or of the ledger itself.
C29_TaxonomyMessagesOnly == error = NoError \/ error \in TaxonomyMessages

\* C30: a refresh that resolves after a refresh that started later has
\* resolved is discarded: the cache stays as it is.
C30_StaleRefreshDiscarded ==
    [][\A i \in 1..Len(refreshes) :
          (RefreshCompleteAt(i) /\ refreshes[i].superseded) =>
              contract' = contract
      ]_vars

\* HashPackWalletManager.isAvailable() for a manager whose field
\* dAppConnector holds `dAppConnector`.
HashPack_isAvailable(dAppConnector) == dAppConnector # Null

\* The backend that reads the storage key `key`.
BackendOf(key) == IF key = MetaMaskKey THEN "metamask" ELSE "hashpack"

\* What isAvailable() of the backend answers while the page loads the
\* saved connections: MetaMask looks for window.ethereum; the HashPack
\* constructor loads the saved connection before initializeWalletConnect
\* assigns dAppConnector.
AvailableAtLoad(walletType) ==
    IF walletType = "metamask" THEN provider ELSE HashPack_isAvailable(Null)

\* C31: a page load takes a stored descriptor as the session only when the
\* backend it names is available, and removes the descriptor of a backend
\* that is not available or that does not match.
C31_RehydrationValidated ==
    [][Startup =>
          /\ wallet' # Null =>
                /\ "walletType" \in DOMAIN wallet'
                /\ AvailableAtLoad(wallet'.walletType)
          /\ \A key \in StorageKeys :
                (/\ localStorage[key] # Absent
                 /\ \/ ~AvailableAtLoad(BackendOf(key))
                    \/ Unusable(localStorage[key]))
                => localStorage'[key] = Absent
      ]_vars

\* -------------------------------------------------------- retryOperation
\* utils/hedera.ts, retryOperation(operation, maxRetries, delay): the loop
\* `for (let i = 0; i < maxRetries; i++)` around `await operation()`. The
\* value attempt n returns and the error attempt n throws are both written
\* n; `invoked` counts the calls of operation and `waits` lists the
\* setTimeout delays in the order they were set.

\* The delay argument of the calls made.
RetryDelays == {1, 1000, 2000}

\* The test of the for loop at index r.i: another call of operation(), or
\* `throw lastError!` after the loop.
RetryLoop(r) ==
    IF r.i < r.maxRetries
    THEN [r EXCEPT !.status = "awaiting", !.invoked = @ + 1]
    ELSE [r EXCEPT !.status = "thrown"]

\* retryOperation(operation, maxRetries, delay) is called.
RetryCall ==
    /\ retry = RetryIdle
    /\ \E maxRetries \in 0..MaxRetries, delay \in RetryDelays :
          retry' = RetryLoop([status |-> "idle", maxRetries |-> maxRetries,
                              delay |-> delay, i |-> 0, invoked |-> 0,
                              waits |-> <<>>, lastError |-> Undefined,
                              result |-> Undefined])
    /\ UNCHANGED <<ledgerVars, reads, historyVars, hookVars, sessionVars>>

\* The awaited operation() settles: `return` with its value, or the catch
\* block, which waits delay * (i + 1) unless this was the last index.
RetryResolveAt(ok) ==
    /\ retry.status = "awaiting"
    /\ retry' =
          IF ok
          THEN [retry EXCEPT !.status = "returned", !.result = retry.invoked]
          ELSE LET caught == [retry EXCEPT !.lastError = retry.invoked]
               IN  IF retry.i < retry.maxRetries - 1
                   THEN [caught EXCEPT
                            !.status = "sleeping",
                            !.waits = Append(@, retry.delay * (retry.i + 1))]
                   ELSE RetryLoop([caught EXCEPT !.i = @ + 1])
    /\ UNCHANGED <<ledgerVars, reads, historyVars, hookVars, sessionVars>>

RetryResolve == \E ok \in BOOLEAN : RetryResolveAt(ok)

\* The timer of the catch block fires: i++ and the loop test.
RetryWake ==
    /\ retry.status = "sleeping"
    /\ retry' = RetryLoop([retry EXCEPT !.i = @ + 1])
    /\ UNCHANGED <<ledgerVars, reads, historyVars, hookVars, sessionVars>>

RetryNext == RetryCall \/ RetryResolve \/ RetryWake

RetrySpec == Init /\ [][RetryNext]_vars

\* C32: retryOperation calls the operation at most maxRetries times, makes
\* no call after the first success, throws the error of the last call once
\* maxRetries calls failed, and its waits grow exponentially: each wait is
\* longer than the one before and consecutive waits keep the same ratio.
C32_BoundedExponentialBackoff ==
    /\ [](retry # RetryIdle =>
            /\ retry.invoked <= retry.maxRetries
            /\ retry.status = "thrown" =>
                  /\ retry.invoked = retry.maxRetries
                  /\ retry.lastError = retry.invoked
            /\ \A k \in 2..Len(retry.waits) :
                  retry.waits[k] > retry.waits[k - 1]
            /\ \A k \in 3..Len(retry.waits) :
                  retry.waits[k] * retry.waits[k - 2]
                      = retry.waits[k - 1] * retry.waits[k - 1])
    /\ [][(retry # RetryIdle /\ retry.status = "returned")
              => retry' = retry]_vars

\* The connection the backend of `walletType` holds.
BackendSession(walletType) ==
    IF walletType = "metamask" THEN metaMask ELSE hashPack

\* C33: the session the hook and the WalletManager submit with is the one
\* the backend it names holds, and without such a session no backend is
\* connected.
C33_OneSessionView ==
    /\ currentWallet = wallet
    /\ IsConnected(wallet) =>
          /\ "walletType" \in DOMAIN wallet
          /\ BackendSession(wallet.walletType) = wallet
    /\ ~IsConnected(wallet) => ~Connected(metaMask) /\ ~Connected(hashPack)

\* C34: the history gets a record only in a step that submits an operation,
\* every submission gets a record of its own, and no two records of the
\* history share an id.
C34_RecordPerSubmission ==
    /\ [](\A i, j \in 1..Len(transactions) :
              i # j => transactions[i].id # transactions[j].id)
    /\ [][/\ now' # now => Len(pending') = Len(pending) + 1
          /\ Len(pending') > Len(pending) =>
                /\ now' # now
                /\ transactions'[1].id = now
                /\ pending'[Len(pending')].record = now
         ]_vars

\* C35: the count of the cached snapshot is within the snapshot's bounds.
C35_CachedCountInBounds ==
    contract # Null =>
        /\ contract.minCount <= contract.count
        /\ contract.count <= contract.maxCount

\* C36: isLoading is true as long as a submission waits for its answer, and
\* a refresh that resolves meanwhile leaves it true.
C36_LoadingWhileInFlight ==
    /\ [](pending # <<>> => isLoading)
    /\ [][\A i \in 1..Len(refreshes) :
             (RefreshCompleteAt(i) /\ pending # <<>>) => isLoading']_vars

\* C37: whenever MetaMaskWallet holds a connected session it holds a signer
\* too, so that executeContract goes on to the contract call.
C37_ConnectedHasSigner ==
    Connected(metaMask) =>
        /\ signer # Null
        /\ MetaMask_executeContract(signer, metaMask)

\* The hook functions that count.
CountingFunctions == {"increment", "decrement", "incrementBy", "decrementBy"}

\* C38: a counting function that passes the hook's tests against a cache
\* that shows the ledger's storage is submitted as a call the ledger, in
\* that storage, executes without reverting.
C38_PreCheckSound ==
    [][\A functionName \in CountingFunctions, amount \in ClientAmounts :
          (/\ HookStep(functionName, amount, Undefined)
           /\ Len(pending') > Len(pending)
           /\ contract = contractData(Storage, TRUE))
          => Call(functionName, Storage, currentWallet.accountId.value,
                  amount).error = "none"
      ]_vars

\* decrementBy(5) has been submitted, as the first operation, from a cache
\* that shows the ledger's storage, and the ledger accepts it.
C38_Witness ==
    /\ calls = 1
    /\ Len(pending) = 1
    /\ contract = contractData(Storage, TRUE)
    /\ pending[1].functionName = "decrementBy"
    /\ pending[1].amount = 5
    /\ Accepted(1)

\* C39: for every amount of the word, incrementBy(amount) leaves count
\* either larger by exactly amount and at most MAX_COUNT, or as it was: the
\* sum of the bound test does not wrap around; decrementBy(amount) with
\* amount > count leaves count as it was.
C39_NoWrapAround ==
    /\ lastCall.op = "incrementBy" =>
          \/ /\ count = lastCall.pre.count + lastCall.arg
             /\ count <= MAX_COUNT
          \/ count = lastCall.pre.count
    /\ (lastCall.op = "decrementBy" /\ lastCall.arg > lastCall.pre.count) =>
          count = lastCall.pre.count

\* An unpaused incrementBy of the largest word on a count above zero, whose
\* sum does not fit the word, has been executed and has reverted.
C39_Witness ==
    /\ lastCall.op = "incrementBy"
    /\ ~lastCall.pre.paused
    /\ lastCall.arg = UINT_MAX
    /\ lastCall.pre.count > 0
    /\ lastCall.pre.count <= MAX_COUNT
    /\ lastCall.error = "Panic"
    /\ count = lastCall.pre.count


====
